---- MODULE Spec2Model ----
(***************************************************************************)
(* A model of scripts/fetch_squads.py: discovery of the first-team squad   *)
(* table on a season page, classification of tables, column inference,     *)
(* the per-club URL fallback loop and the final enrichment/validation.      *)
(*                                                                         *)
(* Text is modelled by TLA+ strings.  The characters the program tests for *)
(* are ASCII, except the em-dash placeholder of the staff denylist, which   *)
(* is written "~" here (U+2014 in the source).  Whitespace is " ".          *)
(***************************************************************************)
EXTENDS Integers, Sequences, FiniteSets, TLC

VARIABLES
    pc,            \* position of the operation under study
    tbl,           \* the table handed to is_player_table / parse_first_team_table
    player_table,  \* is_player_table: the results for require_country True and False
    soup,          \* find_first_team_table: the parsed page
    found,         \* find_first_team_table: the table returned and the return taken
    hdr_cols,      \* parse_first_team_table: col_* after the loop over the headers
    cols,          \* parse_first_team_table: col_* when the rows are read
    rows,          \* parse_first_team_table: the rows returned
    web,           \* fetch_club_squad: what each configured URL of the club serves
    url_idx,       \* fetch_club_squad: number of URLs the for loop has gone through
    partial_rows,  \* fetch_club_squad: partial_rows
    squad,         \* fetch_club_squad: the roster returned
    attempted,     \* fetch_club_squad: the URLs fetched so far, in order
    all_rows,      \* fill_missing_data: the rows passed in, as they were
    valid_rows,    \* fill_missing_data: the rows returned
    origin         \* fill_missing_data: for each returned row, its position in all_rows

classifyVars == <<player_table>>
selectVars == <<soup, found>>
parseVars == <<hdr_cols, cols, rows>>
fetchVars == <<web, url_idx, partial_rows, squad, attempted>>
fillVars == <<all_rows, valid_rows, origin>>

vars == <<pc, tbl, classifyVars, selectVars, parseVars, fetchVars, fillVars>>

-----------------------------------------------------------------------------
(* Python str operations                                                   *)

UpperChars == "ABCDEFGHIJKLMNOPQRSTUVWXYZ"
LowerChars == "abcdefghijklmnopqrstuvwxyz"
DigitChars == "0123456789"

ch(s, i) == SubSeq(s, i, i)

\* needle in s
Contains(s, needle) ==
    \E i \in 1..(Len(s) - Len(needle) + 1) : SubSeq(s, i, i + Len(needle) - 1) = needle

\* s.startswith(prefix)
StartsWith(s, prefix) ==
    Len(s) >= Len(prefix) /\ SubSeq(s, 1, Len(prefix)) = prefix

UpperSet == { ch(UpperChars, i) : i \in 1..Len(UpperChars) }
LowerSet == { ch(LowerChars, i) : i \in 1..Len(LowerChars) }

lower_char(c) ==
    IF c \in UpperSet
    THEN ch(LowerChars, CHOOSE i \in 1..Len(UpperChars) : ch(UpperChars, i) = c)
    ELSE c

upper_char(c) ==
    IF c \in LowerSet
    THEN ch(UpperChars, CHOOSE i \in 1..Len(LowerChars) : ch(LowerChars, i) = c)
    ELSE c

RECURSIVE lower(_)
lower(s) == IF s = "" THEN "" ELSE lower_char(ch(s, 1)) \o lower(SubSeq(s, 2, Len(s)))

RECURSIVE upper(_)
upper(s) == IF s = "" THEN "" ELSE upper_char(ch(s, 1)) \o upper(SubSeq(s, 2, Len(s)))

RECURSIVE lstrip(_)
lstrip(s) == IF s # "" /\ ch(s, 1) = " " THEN lstrip(SubSeq(s, 2, Len(s))) ELSE s

RECURSIVE rstrip(_)
rstrip(s) == IF s # "" /\ ch(s, Len(s)) = " " THEN rstrip(SubSeq(s, 1, Len(s) - 1)) ELSE s

strip(s) == rstrip(lstrip(s))

DigitSet == { ch(DigitChars, i) : i \in 1..Len(DigitChars) }

is_digit_char(c) == c \in DigitSet

\* s.isdigit(): non-empty and every character a digit
isdigit(s) == s # "" /\ \A i \in 1..Len(s) : is_digit_char(ch(s, i))

-----------------------------------------------------------------------------
(* HTML elements.  A cell is a th or td with its own text node, the texts  *)
(* of the anchors it contains (document order) and an optional             *)
(* span.flagicon (img alt text, text of the span's first anchor).          *)
(* A table is its class flag and its rows (tr), each a sequence of cells.  *)

Cell(tag, text, links, flagicon, flagalt, flaglink) ==
    [tag |-> tag, text |-> text, links |-> links,
     flagicon |-> flagicon, flagalt |-> flagalt, flaglink |-> flaglink]

Th(text) == Cell("th", text, <<>>, FALSE, "", "")
Td(text) == Cell("td", text, <<>>, FALSE, "", "")
TdLink(text, link) == Cell("td", text, <<link>>, FALSE, "", "")
TdFlag(alt, link) ==
    Cell("td", "", IF link = "" THEN <<>> ELSE <<link>>, TRUE, alt, link)

Table(wikitable, trs) == [wikitable |-> wikitable, rows |-> trs]

NoTable == Table(FALSE, <<>>)

RECURSIVE join_stripped(_, _)
\* the stripped, non-empty strings of pieces joined with sep
join_stripped(pieces, sep) ==
    IF pieces = <<>> THEN ""
    ELSE LET h == strip(Head(pieces))
             r == join_stripped(Tail(pieces), sep)
         IN  IF h = "" THEN r
             ELSE IF r = "" THEN h
             ELSE h \o sep \o r

\* element.get_text(sep, strip=True)
get_text(cell, sep) == join_stripped(<<cell.text>> \o cell.links, sep)

RECURSIVE concat_rows(_)
concat_rows(trs) == IF trs = <<>> THEN <<>> ELSE Head(trs) \o concat_rows(Tail(trs))

\* table.find_all("th"): every th of the table, whatever its row
find_all_th(table) == SelectSeq(concat_rows(table.rows), LAMBDA c : c.tag = "th")

\* has_flagicon
has_flagicon(table) ==
    \E i \in 1..Len(table.rows) : \E j \in 1..Len(table.rows[i]) : table.rows[i][j].flagicon

CountryTerms == <<"nation", "nat", "nat.", "country", "nationality">>

is_player_table_loose_needs_flag(table, require_country) ==
    LET header_cells == find_all_th(table)
        headers == [i \in 1..Len(header_cells) |-> lower(get_text(header_cells[i], " "))]
        H == 1..Len(headers)
        has_player == \E i \in H : Contains(headers[i], "player") \/ headers[i] = "name"
        has_position == \E i \in H : Contains(headers[i], "pos") \/ Contains(headers[i], "position")
        has_country == \E i \in H : \E k \in 1..Len(CountryTerms) : Contains(headers[i], CountryTerms[k])
        has_number == \E i \in H : StartsWith(headers[i], "no") \/ headers[i] = "n"
                                       \/ Contains(headers[i], "squad number")
    IN  IF headers = <<>> THEN FALSE
        ELSE IF require_country THEN has_player /\ has_position /\ has_country
        ELSE has_player /\ has_position /\ has_flagicon(table) /\ has_number

is_player_table(table, require_country) ==
    LET header_cells == find_all_th(table)
        headers == [i \in 1..Len(header_cells) |-> lower(get_text(header_cells[i], " "))]
        H == 1..Len(headers)
        has_player == \E i \in H : Contains(headers[i], "player") \/ headers[i] = "name"
        has_position == \E i \in H : Contains(headers[i], "pos") \/ Contains(headers[i], "position")
        has_country == \E i \in H : \E k \in 1..Len(CountryTerms) : Contains(headers[i], CountryTerms[k])
        has_number == \E i \in H : StartsWith(headers[i], "no") \/ headers[i] = "n"
                                       \/ Contains(headers[i], "squad number")
    IN  IF headers = <<>> THEN FALSE
        ELSE IF require_country THEN has_player /\ has_position /\ has_country
        ELSE has_player /\ has_position /\ (has_country \/ (has_flagicon(table) /\ has_number))

-----------------------------------------------------------------------------
(* find_first_team_table.  A page (soup) is the sequence, in document      *)
(* order, of its headings (an h2/h3 holding a span.mw-headline with the     *)
(* given text) and tables.  Elements with the same box have the same        *)
(* parent, so find_next_sibling moves to the next element of the same box:  *)
(* box 0 holds the children of the page body, box 1 the children of one     *)
(* wrapper element inside it.                                               *)

Heading(text, box) == [kind |-> "heading", text |-> text, table |-> NoTable, box |-> box]
TableEl(table, box) == [kind |-> "table", text |-> "", table |-> table, box |-> box]

\* sib.find_next_sibling(): position of the next element with the same parent, 0 if none
find_next_sibling(s, sib) ==
    IF \E j \in (sib + 1)..Len(s) : s[j].box = s[sib].box
    THEN CHOOSE j \in (sib + 1)..Len(s) :
            /\ s[j].box = s[sib].box
            /\ \A k \in (sib + 1)..(j - 1) : s[k].box # s[sib].box
    ELSE 0

\* sib.name == "table" and "wikitable" in sib.get("class", [])
is_wikitable(el) == el.kind = "table" /\ el.table.wikitable

\* the text test on a span.mw-headline
is_squad_headline(el) ==
    LET text == lower(join_stripped(<<el.text>>, ""))
    IN  el.kind = "heading"
        /\ (Contains(text, "first-team squad") \/ Contains(text, "first team squad"))

RECURSIVE walk_siblings_first_table_only(_, _, _)
\* the walk as it would be if it stopped at the first wikitable after the heading
walk_siblings_first_table_only(s, sib, fallback_near_heading) ==
    LET next == find_next_sibling(s, sib)
    IN  IF next = 0 THEN [ret |-> 0, fallback |-> fallback_near_heading]
        ELSE IF is_wikitable(s[next])
        THEN IF is_player_table(s[next].table, TRUE)
             THEN [ret |-> next, fallback |-> fallback_near_heading]
             ELSE IF fallback_near_heading = 0 /\ is_player_table(s[next].table, FALSE)
             THEN [ret |-> 0, fallback |-> next]
             ELSE [ret |-> 0, fallback |-> fallback_near_heading]
        ELSE walk_siblings_first_table_only(s, next, fallback_near_heading)

RECURSIVE walk_siblings(_, _, _)
\* the while loop over the siblings that follow one matching heading:
\* ret is the table returned from inside the loop (0 if the loop ran out)
walk_siblings(s, sib, fallback_near_heading) ==
    LET next == find_next_sibling(s, sib)
    IN  IF next = 0 THEN [ret |-> 0, fallback |-> fallback_near_heading]
        ELSE IF is_wikitable(s[next])
        THEN IF is_player_table(s[next].table, TRUE)
             THEN [ret |-> next, fallback |-> fallback_near_heading]
             ELSE IF fallback_near_heading = 0 /\ is_player_table(s[next].table, FALSE)
             THEN walk_siblings(s, next, next)
             ELSE walk_siblings(s, next, fallback_near_heading)
        ELSE walk_siblings(s, next, fallback_near_heading)

RECURSIVE scan_headlines(_, _, _)
\* the for loop over the span.mw-headline elements, from position i on
scan_headlines(s, i, fallback_near_heading) ==
    IF i > Len(s) THEN [ret |-> 0, fallback |-> fallback_near_heading]
    ELSE IF is_squad_headline(s[i])
    THEN LET w == walk_siblings(s, i, fallback_near_heading)
         IN  IF w.ret # 0 THEN w ELSE scan_headlines(s, i + 1, w.fallback)
    ELSE scan_headlines(s, i + 1, fallback_near_heading)

\* soup.find_all("table", class_="wikitable"), as positions in document order
find_all_wikitables(s) == SelectSeq([i \in 1..Len(s) |-> i], LAMBDA i : is_wikitable(s[i]))

\* first position of seq whose table passes the classification, 0 if none
first_passing(s, seq, require_country) ==
    IF \E k \in 1..Len(seq) : is_player_table(s[seq[k]].table, require_country)
    THEN seq[CHOOSE k \in 1..Len(seq) :
                /\ is_player_table(s[seq[k]].table, require_country)
                /\ \A m \in 1..(k - 1) : ~is_player_table(s[seq[m]].table, require_country)]
    ELSE 0

\* the three page scans that follow the heading loop
page_scan_loose_first(s) ==
    LET wikitables == find_all_wikitables(s)
        strict == first_passing(s, wikitables, TRUE)
        loose == first_passing(s, wikitables, FALSE)
    IN  IF loose # 0 THEN [table |-> loose, via |-> "scan_loose"]
        ELSE IF strict # 0 THEN [table |-> strict, via |-> "scan_strict"]
        ELSE IF wikitables # <<>> THEN [table |-> wikitables[1], via |-> "first_wikitable"]
        ELSE [table |-> 0, via |-> "none"]

page_scan(s) ==
    LET wikitables == find_all_wikitables(s)
        strict == first_passing(s, wikitables, TRUE)
        loose == first_passing(s, wikitables, FALSE)
    IN  IF strict # 0 THEN [table |-> strict, via |-> "scan_strict"]
        ELSE IF loose # 0 THEN [table |-> loose, via |-> "scan_loose"]
        ELSE IF wikitables # <<>> THEN [table |-> wikitables[1], via |-> "first_wikitable"]
        ELSE [table |-> 0, via |-> "none"]

\* the function with the page-wide strict scan tried before the remembered
\* heading-adjacent loose table
find_first_team_table_strict_anywhere_first(s) ==
    LET h == scan_headlines(s, 1, 0)
        wikitables == find_all_wikitables(s)
        strict == first_passing(s, wikitables, TRUE)
    IN  IF h.ret # 0 THEN [table |-> h.ret, via |-> "heading_strict"]
        ELSE IF strict # 0 THEN [table |-> strict, via |-> "scan_strict"]
        ELSE IF h.fallback # 0 THEN [table |-> h.fallback, via |-> "heading_loose"]
        ELSE page_scan(s)

\* the table returned (a position of the page, 0 for None) and the return
\* statement that produced it
find_first_team_table(s) ==
    LET h == scan_headlines(s, 1, 0)
    IN  IF h.ret # 0 THEN [table |-> h.ret, via |-> "heading_strict"]
        ELSE IF h.fallback # 0 THEN [table |-> h.fallback, via |-> "heading_loose"]
        ELSE page_scan(s)

-----------------------------------------------------------------------------
(* parse_first_team_table.  Column indices are 0-based as in the source;   *)
(* None is the index of a role no header was assigned to.                  *)

None == 0 - 1

\* the th cells of the first tr
header_row_th(table) == SelectSeq(table.rows[1], LAMBDA c : c.tag = "th")

\* one step of the loop over enumerate(headers): the if/elif chain
assign_header(col, idx, header) ==
    IF Contains(header, "player") \/ header = "name"
    THEN [col EXCEPT !.col_player = idx]
    ELSE IF Contains(header, "pos") \/ Contains(header, "position")
    THEN [col EXCEPT !.col_pos = idx]
    ELSE IF Contains(header, "nation") \/ Contains(header, "nat") \/ Contains(header, "country")
    THEN [col EXCEPT !.col_nat = idx]
    ELSE IF Contains(header, "no") \/ header = "n" \/ Contains(header, "squad number")
            \/ Contains(header, "number")
    THEN [col EXCEPT !.col_number = idx]
    ELSE col

RECURSIVE assign_headers(_, _, _)
\* the loop over enumerate(headers), from the (0-based) index idx on
assign_headers(col, headers, idx) ==
    IF idx >= Len(headers) THEN col
    ELSE assign_headers(assign_header(col, idx, headers[idx + 1]), headers, idx + 1)

\* table.find_all("tr")[1:6] without the rows that have no cell
sampled_rows(table) ==
    SelectSeq(SubSeq(table.rows, 2, IF Len(table.rows) < 6 THEN Len(table.rows) ELSE 6),
              LAMBDA tr : tr # <<>>)

\* the shift applied to unassigned roles too
shift_unassigned_too(col) == col + 1

\* col_x += 1 under "if col_x is not None"
shift(col) == IF col = None THEN None ELSE col + 1

\* the implicit number column without the adjustment of the other columns
implicit_number_column_no_shift(col, table, headers) ==
    IF col.col_number = None /\ headers # <<>>
    THEN LET first_cells == [k \in 1..Len(sampled_rows(table)) |-> sampled_rows(table)[k][1]]
         IN  IF first_cells # <<>>
             THEN LET first_cell_text == get_text(first_cells[1], "")
                  IN  IF isdigit(first_cell_text) \/ first_cell_text = ""
                      THEN [col EXCEPT !.col_number = 0]
                      ELSE col
             ELSE col
    ELSE col

\* the implicit number column: decided on first_cells[0] alone
implicit_number_column(col, table, headers) ==
    IF col.col_number = None /\ headers # <<>>
    THEN LET first_cells == [k \in 1..Len(sampled_rows(table)) |-> sampled_rows(table)[k][1]]
         IN  IF first_cells # <<>>
             THEN LET first_cell_text == get_text(first_cells[1], "")
                  IN  IF isdigit(first_cell_text) \/ first_cell_text = ""
                      THEN [col_player |-> shift(col.col_player),
                            col_pos |-> shift(col.col_pos),
                            col_nat |-> shift(col.col_nat),
                            col_number |-> 0]
                      ELSE col
             ELSE col
    ELSE col

NoCols == [col_player |-> None, col_pos |-> None, col_nat |-> None, col_number |-> None]

\* headers: the lower-cased texts of the th cells of the first tr
table_headers(table) ==
    LET ths == header_row_th(table)
    IN  [i \in 1..Len(ths) |-> lower(get_text(ths[i], " "))]

\* col_* after the loop over the headers; the table has a first row
header_columns(table) == assign_headers(NoCols, table_headers(table), 0)

\* col_* with which the rows are read; the table has a first row
infer_columns(table) ==
    implicit_number_column(header_columns(table), table, table_headers(table))

\* extract_country_from_cell, for a cell that exists
extract_country_from_cell(cell) ==
    IF cell.flagicon
    THEN IF cell.flagalt # "" THEN strip(cell.flagalt)
         ELSE IF cell.flaglink # "" THEN strip(cell.flaglink)
         ELSE ""
    ELSE ""

RECURSIVE remove_char(_, _)
\* s.replace(c, "") for a one-character c
remove_char(s, c) ==
    IF s = "" THEN ""
    ELSE (IF ch(s, 1) = c THEN "" ELSE ch(s, 1)) \o remove_char(SubSeq(s, 2, Len(s)), c)

RECURSIVE digit_prefix(_)
digit_prefix(s) ==
    IF s # "" /\ is_digit_char(ch(s, 1)) THEN ch(s, 1) \o digit_prefix(SubSeq(s, 2, Len(s))) ELSE ""

RECURSIVE first_digit_run(_)
\* re.findall(r'\d+', s)[0], or "" when findall returns no match
first_digit_run(s) ==
    IF s = "" THEN ""
    ELSE IF is_digit_char(ch(s, 1)) THEN digit_prefix(s)
    ELSE first_digit_run(SubSeq(s, 2, Len(s)))

\* the clean-up without the pass-through of ranges
clean_shirt_number_always_extract(shirt_number) ==
    IF shirt_number # "" /\ ~isdigit(shirt_number)
    THEN first_digit_run(shirt_number)
    ELSE shirt_number

\* the clean-up of the number cell's text
clean_shirt_number(shirt_number) ==
    IF shirt_number # "" /\ ~isdigit(remove_char(remove_char(shirt_number, "-"), "/"))
    THEN first_digit_run(shirt_number)
    ELSE shirt_number

country_map_pairs ==
    { <<"Spain", "ESP">>, <<"Spanish", "ESP">>, <<"Netherlands", "NED">>,
      <<"Dutch", "NED">>, <<"England", "ENG">>, <<"English", "ENG">>,
      <<"France", "FRA">>, <<"French", "FRA">>, <<"Germany", "GER">>,
      <<"German", "GER">>, <<"Brazil", "BRA">>, <<"Brazilian", "BRA">>,
      <<"Argentina", "ARG">>, <<"Argentine", "ARG">>, <<"Portugal", "POR">>,
      <<"Portuguese", "POR">>, <<"Italy", "ITA">>, <<"Italian", "ITA">>,
      <<"Belgium", "BEL">>, <<"Belgian", "BEL">>, <<"Uruguay", "URU">>,
      <<"Uruguayan", "URU">>, <<"Colombia", "COL">>, <<"Colombian", "COL">>,
      <<"Sweden", "SWE">>, <<"Swedish", "SWE">>, <<"Norway", "NOR">>,
      <<"Norwegian", "NOR">>, <<"Denmark", "DEN">>, <<"Danish", "DEN">>,
      <<"Poland", "POL">>, <<"Polish", "POL">>, <<"Croatia", "CRO">>,
      <<"Croatian", "CRO">>, <<"Serbia", "SRB">>, <<"Serbian", "SRB">>,
      <<"Ghana", "GHA">>, <<"Ghanaian", "GHA">>, <<"Senegal", "SEN">>,
      <<"Senegalese", "SEN">>, <<"Egypt", "EGY">>, <<"Egyptian", "EGY">>,
      <<"Japan", "JPN">>, <<"Japanese", "JPN">>, <<"South Korea", "KOR">>,
      <<"Korean", "KOR">>, <<"Australia", "AUS">>, <<"Australian", "AUS">>,
      <<"Canada", "CAN">>, <<"Canadian", "CAN">>, <<"United States", "USA">>,
      <<"American", "USA">>, <<"USA", "USA">>, <<"Mexico", "MEX">>,
      <<"Mexican", "MEX">>, <<"Hungary", "HUN">>, <<"Hungarian", "HUN">>,
      <<"Romania", "ROU">>, <<"Romanian", "ROU">>, <<"Austria", "AUT">>,
      <<"Austrian", "AUT">>, <<"Switzerland", "SUI">>, <<"Swiss", "SUI">>,
      <<"Wales", "WAL">>, <<"Welsh", "WAL">>, <<"Scotland", "SCO">>,
      <<"Scottish", "SCO">>, <<"Northern Ireland", "NIR">>,
      <<"Northern Irish", "NIR">>, <<"Republic of Ireland", "IRL">>,
      <<"Irish", "IRL">>, <<"Georgia", "GEO">>, <<"Georgian", "GEO">>,
      <<"Mali", "MLI">>, <<"Malian", "MLI">>, <<"Ivory Coast", "CIV">>,
      <<"Ivorian", "CIV">>, <<"Algeria", "ALG">>, <<"Algerian", "ALG">>,
      <<"Uzbekistan", "UZB">>, <<"Uzbek", "UZB">>, <<"Czech Republic", "CZE">>,
      <<"Czech", "CZE">>, <<"Israel", "ISR">>, <<"Israeli", "ISR">>,
      <<"Ecuador", "ECU">>, <<"Ecuadorian", "ECU">> }

country_map_keys == { kv[1] : kv \in country_map_pairs }

country_map_get(country) == (CHOOSE kv \in country_map_pairs : kv[1] = country)[2]

\* the normalization with every unmapped text upper-cased, whatever its length
normalize_country_no_length_test(country) ==
    IF country = "" THEN ""
    ELSE IF country \in country_map_keys THEN country_map_get(country)
    ELSE upper(country)

\* country_map.get(country, country.upper() if len(country) <= 3 else country)
normalize_country(country) ==
    IF country = "" THEN ""
    ELSE IF country \in country_map_keys THEN country_map_get(country)
    ELSE IF Len(country) <= 3 THEN upper(country)
    ELSE country

\* country before the normalization, for the cells of one data row
raw_country(cells, col) ==
    LET has_cell(idx) == idx # None /\ idx < Len(cells)
        player_cell == cells[col.col_player + 1]
        nat_cell == cells[col.col_nat + 1]
    IN  IF has_cell(col.col_nat)
        THEN IF nat_cell.links # <<>>
             THEN join_stripped(<<nat_cell.links[Len(nat_cell.links)]>>, "")
             ELSE get_text(nat_cell, " ")
        ELSE IF has_cell(col.col_player) THEN extract_country_from_cell(player_cell)
        ELSE ""

\* the body of the loop over the data rows: <<row>>, or <<>> when the tr is skipped
parse_row(cells, col, team, league) ==
    IF Len(cells) < 2 THEN <<>>
    ELSE
    LET has_cell(idx) == idx # None /\ idx < Len(cells)
        player_cell == cells[col.col_player + 1]
        pos_cell == cells[col.col_pos + 1]
        number_cell == cells[col.col_number + 1]
        name == IF has_cell(col.col_player)
                THEN IF player_cell.links # <<>>
                     THEN join_stripped(<<player_cell.links[1]>>, "")
                     ELSE get_text(player_cell, " ")
                ELSE ""
        position == IF has_cell(col.col_pos) THEN get_text(pos_cell, " ") ELSE ""
        country == raw_country(cells, col)
        shirt_number == IF has_cell(col.col_number)
                        THEN clean_shirt_number(get_text(number_cell, " "))
                        ELSE ""
    IN  IF name = "" THEN <<>>
        ELSE << [Name |-> name, Team |-> team, Country |-> normalize_country(country),
                 Position |-> position, League |-> league, Shirt_Number |-> shirt_number] >>

RECURSIVE parse_rows(_, _, _, _)
parse_rows(trs, col, team, league) ==
    IF trs = <<>> THEN <<>>
    ELSE parse_row(Head(trs), col, team, league) \o parse_rows(Tail(trs), col, team, league)

\* the rows returned for a table that was found (table is not None)
parse_first_team_table(table, team, league) ==
    IF table.rows = <<>> THEN <<>>
    ELSE parse_rows(Tail(table.rows), infer_columns(table), team, league)

-----------------------------------------------------------------------------
(* fetch_club_squad: one iteration of the loop over the club's URLs.       *)

MIN_PLAYER_THRESHOLD == 10

\* what a URL serves: fetch_soup returns None (ok FALSE) or the parsed page
FetchFailure == [ok |-> FALSE, soup |-> <<>>]
Page(s) == [ok |-> TRUE, soup |-> s]

\* the rows parsed from the table found on a page (none when no table)
rows_of_table(s, table, team, league) ==
    IF table = 0 THEN <<>>
    ELSE parse_first_team_table(s[table].table, team, league)

\* the rows the loop body obtains from one URL (none when it continues early)
rows_from(page, team, league) ==
    IF ~page.ok THEN <<>>
    ELSE rows_of_table(page.soup, find_first_team_table(page.soup).table,
                       team, league)

\* what the loop body does with the rows of one URL, without the early return
keep_or_return_no_return(r, partial) ==
    IF r # <<>>
    THEN [returned |-> FALSE, rows |-> <<>>, partial_rows |-> r]
    ELSE [returned |-> FALSE, rows |-> <<>>, partial_rows |-> partial]

\* what the loop body does with the rows of one URL: return them when they
\* reach the threshold, keep them as the partial roster when not empty
keep_or_return(r, partial) ==
    IF r # <<>>
    THEN IF Len(r) >= MIN_PLAYER_THRESHOLD
         THEN [returned |-> TRUE, rows |-> r, partial_rows |-> partial]
         ELSE [returned |-> FALSE, rows |-> <<>>, partial_rows |-> r]
    ELSE [returned |-> FALSE, rows |-> <<>>, partial_rows |-> partial]

\* the loop body: whether it returns, the rows returned, partial_rows after it
try_url(page, partial, team, league) ==
    keep_or_return(rows_from(page, team, league), partial)

-----------------------------------------------------------------------------
(* search_player_info, is_valid_player_row, fill_missing_data.             *)

\* known_players: <<name, country code, shirt number>>; the entries of the
\* source whose names are ASCII, a repeated key keeping its last value
known_players ==
    { <<"Pedro Porro", "ESP", "23">>, <<"Xavi Simons", "NED", "10">>,
      <<"Guglielmo Vicario", "ITA", "13">>, <<"Cristian Romero", "ARG", "17">>,
      <<"Destiny Udogie", "ITA", "38">>, <<"Yves Bissouma", "MLI", "8">>,
      <<"James Maddison", "ENG", "10">>, <<"Dejan Kulusevski", "SWE", "21">>,
      <<"Richarlison", "BRA", "9">>, <<"Dominic Solanke", "ENG", "9">>,
      <<"Mohammed Kudus", "GHA", "11">>, <<"Brennan Johnson", "WAL", "22">>,
      <<"Micky van de Ven", "NED", "37">>, <<"Kevin Danso", "AUT", "15">>,
      <<"Ben Davies", "WAL", "33">>, <<"Archie Gray", "ENG", "44">>,
      <<"Lucas Bergvall", "SWE", "41">>, <<"Pape Matar Sarr", "SEN", "29">>,
      <<"Rodrigo Bentancur", "URU", "30">>, <<"Mathys Tel", "FRA", "18">>,
      <<"Randal Kolo Muani", "FRA", "9">>, <<"Wilson Odobert", "FRA", "23">>,
      <<"Alejandro Balde", "ESP", "3">>, <<"Andreas Christensen", "DEN", "15">>,
      <<"Gavi", "ESP", "6">>, <<"Pedri", "ESP", "8">>, <<"Frenkie de Jong", "NED", "21">>,
      <<"Ferran Torres", "ESP", "7">>, <<"Robert Lewandowski", "POL", "9">>,
      <<"Lamine Yamal", "ESP", "10">>, <<"Raphinha", "BRA", "11">>,
      <<"Marcus Rashford", "ENG", "14">>, <<"Roony Bardghji", "SWE", "28">>,
      <<"Thibaut Courtois", "BEL", "1">>, <<"Dani Carvajal", "ESP", "2">>,
      <<"David Alaba", "AUT", "4">>, <<"Jude Bellingham", "ENG", "5">>,
      <<"Eduardo Camavinga", "FRA", "12">>, <<"Federico Valverde", "URU", "15">>,
      <<"Endrick", "BRA", "9">>, <<"Rodrygo", "BRA", "11">>,
      <<"Trent Alexander-Arnold", "ENG", "12">>, <<"Andriy Lunin", "UKR", "13">>,
      <<"James Trafford", "ENG", "1">>, <<"Stefan Ortega", "GER", "18">>,
      <<"Gianluigi Donnarumma", "ITA", "25">>, <<"John Stones", "ENG", "5">>,
      <<"Rodri", "ESP", "16">>, <<"Bernardo Silva", "POR", "20">>,
      <<"Phil Foden", "ENG", "47">>, <<"Erling Haaland", "NOR", "9">>,
      <<"Alisson Becker", "BRA", "1">>, <<"Virgil van Dijk", "NED", "4">>,
      <<"Wataru Endo", "JPN", "3">>, <<"Alexis Mac Allister", "ARG", "10">>,
      <<"Mohamed Salah", "EGY", "11">>, <<"Florian Wirtz", "GER", "7">>,
      <<"Dominik Szoboszlai", "HUN", "8">>, <<"Alexander Isak", "SWE", "14">>,
      <<"Federico Chiesa", "ITA", "7">>, <<"Cody Gakpo", "NED", "18">>,
      <<"Andy Robertson", "SCO", "26">>, <<"Conor Bradley", "NIR", "12">>,
      <<"Marc Cucurella", "ESP", "3">>, <<"Reece James", "ENG", "24">>,
      <<"Cole Palmer", "ENG", "20">>, <<"Mykhailo Mudryk", "UKR", "10">>,
      <<"Manuel Neuer", "GER", "1">>, <<"Dayot Upamecano", "FRA", "2">>,
      <<"Kim Min-jae", "KOR", "3">>, <<"Jonathan Tah", "GER", "4">>,
      <<"Joshua Kimmich", "GER", "6">>, <<"Serge Gnabry", "GER", "7">>,
      <<"Leon Goretzka", "GER", "8">>, <<"Harry Kane", "ENG", "9">>,
      <<"Jamal Musiala", "GER", "10">>, <<"Nicolas Jackson", "SEN", "11">>,
      <<"Michael Olise", "FRA", "17">>, <<"Alphonso Davies", "CAN", "19">>,
      <<"Dani Olmo", "ESP", "19">>, <<"Marc Bernal", "ESP", "22">>,
      <<"Marcus Bettinelli", "ENG", "13">>, <<"Abdukodir Khusanov", "UZB", "45">>,
      <<"Rico Lewis", "ENG", "82">>, <<"Tijjani Reijnders", "NED", "4">>,
      <<"Rayan Cherki", "FRA", "10">>, <<"Savinho", "BRA", "26">>,
      <<"Matheus Nunes", "POR", "27">>, <<"Kalvin Phillips", "ENG", "44">>,
      <<"Oscar Bobb", "NOR", "52">>, <<"Omar Marmoush", "EGY", "7">>,
      <<"Gabriel Slonina", "USA", "44">>, <<"Tosin Adarabioyo", "ENG", "4">>,
      <<"Levi Colwill", "ENG", "6">>, <<"Jorrel Hato", "NED", "21">>,
      <<"Trevoh Chalobah", "ENG", "23">>, <<"Malo Gusto", "FRA", "27">>,
      <<"Wesley Fofana", "FRA", "29">>, <<"Josh Acheampong", "ENG", "34">>,
      <<"Andrey Santos", "BRA", "17">>, <<"Facundo Buonanotte", "ARG", "40">>,
      <<"Reggie Walsh", "ENG", "46">>, <<"Pedro Neto", "POR", "7">>,
      <<"Liam Delap", "ENG", "9">>, <<"Jamie Gittens", "ENG", "11">>,
      <<"Tyrique George", "ENG", "32">>, <<"Marc Guiu", "ESP", "38">>,
      <<"Alejandro Garnacho", "ARG", "49">>, <<"Shim Mheuka", "FRA", "62">>,
      <<"Joe Gomez", "ENG", "2">>, <<"Milos Kerkez", "HUN", "6">>,
      <<"Hugo Ekitike", "FRA", "22">>, <<"Giorgi Mamardashvili", "GEO", "25">>,
      <<"Freddie Woodman", "ENG", "28">>, <<"Jeremie Frimpong", "NED", "30">>,
      <<"Ryan Gravenberch", "NED", "38">>, <<"Curtis Jones", "ENG", "17">>,
      <<"Giovanni Leoni", "ITA", "15">>, <<"Calvin Ramsay", "SCO", "47">>,
      <<"Kaide Gordon", "ENG", "49">>, <<"Amara Nallo", "ENG", "65">>,
      <<"Kieran Morrison", "NIR", "68">>, <<"Rio Ngumoha", "ENG", "73">>,
      <<"Jayden Danns", "ENG", "76">>, <<"Wellity Lucky", "ENG", "92">>,
      <<"Harvey Elliott", "ENG", "19">>, <<"Brandon Austin", "ENG", "40">>,
      <<"Djed Spence", "ENG", "24">>, <<"Dane Scarlett", "ENG", "44">>,
      <<"Yang Min-hyeok", "KOR", "18">>, <<"Manor Solomon", "ISR", "27">>,
      <<"Ashley Phillips", "ENG", "35">>, <<"Alfie Devine", "ENG", "45">>,
      <<"Juan Musso", "ARG", "1">>, <<"Matteo Ruggeri", "ITA", "3">>,
      <<"Conor Gallagher", "ENG", "4">>, <<"Johnny Cardoso", "USA", "5">>,
      <<"Koke", "ESP", "6">>, <<"Antoine Griezmann", "FRA", "7">>,
      <<"Pablo Barrios", "ESP", "8">>, <<"Thiago Almada", "ARG", "11">>,
      <<"Nico O'Reilly", "ENG", "">> }

known_names == { e[1] : e \in known_players }

known_player(name) == CHOOSE e \in known_players : e[1] = name

\* (country, shirt_number): the static entry if the name is known, else what
\* the page lookup gives (a country or "", never a number)
search_player_info(name, looked_up) ==
    IF name \in known_names
    THEN [country |-> known_player(name)[2], number |-> known_player(name)[3]]
    ELSE [country |-> looked_up, number |-> ""]

invalid_names == {"apps", "goals", "2", "spain", "france", "netherlands"}
invalid_positions == {"manager", "coach", "assistant coaches", "goalkeeping coach", "~"}

is_valid_player_row_any_position(row) ==
    LET name == strip(row.Name)
    IN  ~(lower(name) \in invalid_names \/ Len(name) < 2) /\ name # ""

is_valid_player_row(row) ==
    LET name == strip(row.Name)
        position == lower(strip(row.Position))
    IN  IF lower(name) \in invalid_names \/ Len(name) < 2 THEN FALSE
        ELSE IF position \in invalid_positions THEN FALSE
        ELSE IF name = "" THEN FALSE
        ELSE TRUE

\* the two conditional assignments, with the lookup result always written
fill_row_overwriting(row, info) ==
    [row EXCEPT !.Country = IF info.country # "" THEN info.country ELSE @,
                !.Shirt_Number = IF info.number # "" THEN info.number ELSE @]

\* the two conditional assignments to a valid row
fill_row(row, info) ==
    LET country == strip(row.Country)
        shirt_number == strip(row.Shirt_Number)
    IN  [row EXCEPT !.Country = IF country = "" /\ info.country # "" THEN info.country ELSE @,
                    !.Shirt_Number = IF shirt_number = "" /\ info.number # "" THEN info.number ELSE @]

RECURSIVE fill_missing_data(_, _, _)
\* the loop over rows from position i on: the rows appended to valid_rows,
\* each with its position in rows; looked_up[i] is the page lookup for row i
fill_missing_data(rs, looked_up, i) ==
    IF i > Len(rs) THEN <<>>
    ELSE IF ~is_valid_player_row(rs[i]) THEN fill_missing_data(rs, looked_up, i + 1)
    ELSE << [from |-> i, row |-> fill_row(rs[i], search_player_info(rs[i].Name, looked_up[i]))] >>
         \o fill_missing_data(rs, looked_up, i + 1)

-----------------------------------------------------------------------------
(* The operations are studied one at a time: each specification below      *)
(* starts one of them on an input drawn from a bounded set and leaves the   *)
(* variables of the others at rest.                                         *)

NoPlayerTable == [strict |-> FALSE, loose |-> FALSE]
NoFound == [table |-> 0, via |-> "pending"]

IdleClassify == player_table = NoPlayerTable
IdleSelect == soup = <<>> /\ found = NoFound
IdleParse == hdr_cols = NoCols /\ cols = NoCols /\ rows = <<>>
IdleFetch == web = <<>> /\ url_idx = 0 /\ partial_rows = <<>> /\ squad = <<>> /\ attempted = <<>>
IdleFill == all_rows = <<>> /\ valid_rows = <<>> /\ origin = <<>>

-----------------------------------------------------------------------------
(* Classification of one table, both ways (is_player_table).               *)

MaxHeaders == 3

HeaderSamples ==
    {"", "Player", " name ", "Pos.", "Nat.", "Country", "No.", "N", "Squad Number", "Notes"}

\* the data rows put under the header row: plain cells, a cell with a flag
\* marker, and a row whose first cell is itself a th (a row header)
DataRowSamples ==
    { <<Td("7"), Td("x")>>, <<Td("7"), TdFlag("Spain", "")>>, <<Th("Player"), TdFlag("", "Spain")>> }

HeaderRows == UNION { [1..n -> HeaderSamples] : n \in 0..MaxHeaders }

ClassifyInputs ==
    { Table(TRUE, <<[i \in 1..Len(hs) |-> Th(hs[i])], d>>) : hs \in HeaderRows, d \in DataRowSamples }

InitClassify ==
    /\ pc = "classify"
    /\ tbl \in ClassifyInputs
    /\ IdleClassify /\ IdleSelect /\ IdleParse /\ IdleFetch /\ IdleFill

Classify ==
    /\ pc = "classify"
    /\ player_table' = [strict |-> is_player_table(tbl, TRUE), loose |-> is_player_table(tbl, FALSE)]
    /\ pc' = "classified"
    /\ UNCHANGED <<tbl, selectVars, parseVars, fetchVars, fillVars>>

NextClassify == Classify

SpecClassify == InitClassify /\ [][NextClassify]_vars

\* C2: for every table, strict classification (require_country=True) implies
\* loose classification (require_country=False); a table with no th cell at
\* all is rejected by both.
C2_StrictImpliesLoose ==
    pc = "classified" =>
        /\ player_table.strict => player_table.loose
        /\ find_all_th(tbl) = <<>> => (~player_table.strict /\ ~player_table.loose)

\* a table with an explicit nationality header accepted both ways
C2_Witness ==
    /\ pc = "classified"
    /\ player_table.strict
    /\ player_table.loose
    /\ ~has_flagicon(tbl)

-----------------------------------------------------------------------------
(* Table selection on one page (find_first_team_table).                    *)

MaxElems == 3

StrictTable ==
    Table(TRUE, << <<Th("No."), Th("Player"), Th("Pos."), Th("Nat.")>>,
                   <<Td("1"), TdLink("", "A Keeper"), Td("GK"), TdFlag("", "Spain")>> >>)

\* no nationality header, but a number header and flag markers
LooseTable ==
    Table(TRUE, << <<Th("No."), Th("Pos."), Th("Player")>>,
                   <<Td("1"), Td("GK"), Cell("td", "", <<"A Keeper">>, TRUE, "Spain", "")>> >>)

PlainTable ==
    Table(TRUE, << <<Th("Apps"), Th("Goals")>>, <<Td("3"), Td("0")>> >>)

\* a squad table that lacks the wikitable class
UnstyledTable == Table(FALSE, StrictTable.rows)

HeadlineSamples == {"First-team squad", " First team squad", "Transfers"}

ElemSamples ==
    { Heading(t, b) : t \in HeadlineSamples, b \in {0, 1} }
    \cup { TableEl(t, b) : t \in {StrictTable, LooseTable, PlainTable, UnstyledTable}, b \in {0, 1} }

\* the children of the wrapper element are contiguous in document order
ValidSoup(s) ==
    \A i, j \in 1..Len(s) :
        (i < j /\ s[i].box = 1 /\ s[j].box = 1) => \A k \in i..j : s[k].box = 1

SoupInputs == { s \in UNION { [1..n -> ElemSamples] : n \in 0..MaxElems } : ValidSoup(s) }

InitSelect ==
    /\ pc = "select"
    /\ soup \in SoupInputs
    /\ found = NoFound
    /\ tbl = NoTable
    /\ IdleClassify /\ IdleParse /\ IdleFetch /\ IdleFill

FindFirstTeamTable ==
    /\ pc = "select"
    /\ found' = find_first_team_table(soup)
    /\ pc' = "selected"
    /\ UNCHANGED <<soup, tbl, classifyVars, parseVars, fetchVars, fillVars>>

NextSelect == FindFirstTeamTable

SpecSelect == InitSelect /\ [][NextSelect]_vars

\* the pairs (heading, table) the heading loop visits: a matching heading and
\* a wikitable among the siblings that follow it
Visited(s) ==
    { p \in (1..Len(s)) \X (1..Len(s)) :
        /\ p[1] < p[2]
        /\ s[p[2]].box = s[p[1]].box
        /\ is_wikitable(s[p[2]])
        /\ is_squad_headline(s[p[1]]) }

\* visiting order: headings in document order, then siblings in document order
Before(p, q) == p[1] < q[1] \/ (p[1] = q[1] /\ p[2] <= q[2])

VisitedPassing(s, require_country) ==
    { p \in Visited(s) : is_player_table(s[p[2]].table, require_country) }

\* the table of the first pair of the set P in visiting order
FirstVisited(P) == (CHOOSE p \in P : \A q \in P : Before(p, q))[2]

\* wikitables that no matching heading leads to
OnlyByPageScan(s) ==
    { i \in 1..Len(s) : is_wikitable(s[i]) /\ \A p \in Visited(s) : p[2] # i }

\* C1: when no table reached from a matching heading passes strict
\* classification and at least one passes loose classification, the table
\* returned is the first heading-adjacent loose match in visiting order,
\* whatever the other wikitables of the page are.
C1_LooseNearHeadingWins ==
    pc = "selected" =>
        LET loose == VisitedPassing(soup, FALSE)
        IN  (loose # {} /\ VisitedPassing(soup, TRUE) = {}) => found.table = FirstVisited(loose)

\* a heading-adjacent loose table returned although a wikitable reached only
\* by the page scan passes strict classification
C1_Witness ==
    /\ pc = "selected"
    /\ VisitedPassing(soup, TRUE) = {}
    /\ VisitedPassing(soup, FALSE) # {}
    /\ \E i \in OnlyByPageScan(soup) : is_player_table(soup[i].table, TRUE)
    /\ found.table = FirstVisited(VisitedPassing(soup, FALSE))
    /\ ~is_player_table(soup[found.table].table, TRUE)

WikitablePositions(s) == { i \in 1..Len(s) : is_wikitable(s[i]) }

FirstOf(S) == CHOOSE i \in S : \A j \in S : i <= j

PassingPositions(s, require_country) ==
    { i \in WikitablePositions(s) : is_player_table(s[i].table, require_country) }

\* C7: when the matching headings yield neither a strict nor a loose
\* candidate, the result is the first wikitable in document order passing
\* strict classification, else the first passing loose classification, else
\* the first wikitable; and the result is None exactly when the page has no
\* wikitable.
C7_PageScanTiers ==
    (pc = "selected" /\ VisitedPassing(soup, FALSE) = {}) =>
        LET strict == PassingPositions(soup, TRUE)
            loose == PassingPositions(soup, FALSE)
            wikitables == WikitablePositions(soup)
        IN  /\ strict # {} => found.table = FirstOf(strict)
            /\ (strict = {} /\ loose # {}) => found.table = FirstOf(loose)
            /\ (loose = {} /\ wikitables # {}) => found.table = FirstOf(wikitables)
            /\ found.table = 0 <=> wikitables = {}

\* the page scan returns a strict table that stands after a loose-only one
C7_Witness ==
    /\ pc = "selected"
    /\ VisitedPassing(soup, FALSE) = {}
    /\ found.via = "scan_strict"
    /\ \E i \in PassingPositions(soup, FALSE) : i < found.table

\* C8: for each matching heading only the first table after it is
\* classified, so a table returned or remembered by the heading loop is the
\* first wikitable after some matching heading.
C8_OnlyFirstTableNearHeading ==
    (pc = "selected" /\ found.via \in {"heading_strict", "heading_loose"}) =>
        \E p \in Visited(soup) :
            /\ p[2] = found.table
            /\ \A q \in Visited(soup) : q[1] = p[1] => p[2] <= q[2]

\* C8, with the walk continuing: the walk goes on past a table that fails classification,
\* through every following sibling.  The heading loop returns the first
\* visited wikitable passing strict classification if there is one, else the
\* first visited wikitable passing loose classification, wherever it stands
\* in the sibling chain.
C8_WalkContinuesPastTables ==
    pc = "selected" =>
        LET strict == VisitedPassing(soup, TRUE)
            loose == VisitedPassing(soup, FALSE)
        IN  /\ strict # {} => (found.via = "heading_strict" /\ found.table = FirstVisited(strict))
            /\ (strict = {} /\ loose # {})
                  => (found.via = "heading_loose" /\ found.table = FirstVisited(loose))
            /\ loose = {} => found.via \notin {"heading_strict", "heading_loose"}

\* a strict table returned for a heading whose first table failed classification
C8_Witness ==
    /\ pc = "selected"
    /\ found.via = "heading_strict"
    /\ \E p \in Visited(soup) :
          /\ p[2] < found.table
          /\ ~is_player_table(soup[p[2]].table, FALSE)
          /\ \A q \in Visited(soup) : q[2] = found.table => q[1] = p[1]

-----------------------------------------------------------------------------
(* Column inference and row parsing of one table (parse_first_team_table). *)

MaxDataRows == 2

ColumnHeaderSamples == {"", "Player", "Name", "Pos.", "Nat.", "No."}

FirstCellSamples == {"7", "", "Joe"}

DataRow(first) == <<Td(first), TdLink("", "A Player"), Td("GK"), TdFlag("", "Spain")>>

\* a squad table with an unlabelled number column: headers "", "Player",
\* "Pos.", "Nation" and the first-column values "7", "10", "", "4", "23"
ShiftExampleTable ==
    Table(TRUE, << <<Th(""), Th("Player"), Th("Pos."), Th("Nation")>>,
                   DataRow("7"), DataRow("10"), DataRow(""), DataRow("4"), DataRow("23") >>)

\* nationality cells: two links, a flag with a linked country, a flag with
\* an alt text only, plain text, an empty cell
NatCellSamples ==
    { Cell("td", "", <<"Catalonia", "Spain">>, FALSE, "", ""),
      TdFlag("", "Spain"), TdFlag("Spain", ""), TdFlag(" France ", "ESP"),
      Td("Brazil"), Td("") }

\* name cells: a linked name, with and without a flag marker
NameCellSamples ==
    { TdLink("", "A Player"),
      Cell("td", "", <<"A Player">>, TRUE, "Spain", ""),
      Cell("td", "", <<"Spain", "A Player">>, TRUE, "", "Spain") }

\* one-row tables with and without a nationality column
NationalityTables ==
    { Table(TRUE, << <<Th("No."), Th("Player"), Th("Nat.")>>, <<Td("7"), nm, nc>> >>) :
        nm \in NameCellSamples, nc \in NatCellSamples }
    \cup { Table(TRUE, << <<Th("No."), Th("Player")>>, <<Td("7"), nm>> >>) :
              nm \in NameCellSamples }
    \cup { Table(TRUE, << <<Th("No."), Th("Player"), Th("Nat.")>>, <<Td("7"), nm>> >>) :
              nm \in NameCellSamples }

ParseInputs ==
    { Table(TRUE, <<[i \in 1..Len(hs) |-> Th(hs[i])]>> \o [k \in 1..Len(ds) |-> DataRow(ds[k])]) :
        hs \in UNION { [1..n -> ColumnHeaderSamples] : n \in 0..MaxHeaders },
        ds \in UNION { [1..m -> FirstCellSamples] : m \in 0..MaxDataRows } }
    \cup { Table(TRUE, <<>>), ShiftExampleTable }
    \cup NationalityTables

Team == "FC Barcelona"
League == "LaLiga"

InitParse ==
    /\ pc = "parse"
    /\ tbl \in ParseInputs
    /\ IdleClassify /\ IdleSelect /\ IdleParse /\ IdleFetch /\ IdleFill

ParseFirstTeamTable ==
    /\ pc = "parse"
    /\ hdr_cols' = IF tbl.rows = <<>> THEN NoCols ELSE header_columns(tbl)
    /\ cols' = IF tbl.rows = <<>> THEN NoCols ELSE infer_columns(tbl)
    /\ rows' = parse_first_team_table(tbl, Team, League)
    /\ pc' = "parsed"
    /\ UNCHANGED <<tbl, classifyVars, selectVars, fetchVars, fillVars>>

NextParse == ParseFirstTeamTable

SpecParse == InitParse /\ [][NextParse]_vars

Roles == {"col_player", "col_pos", "col_nat", "col_number"}

\* the keywords of a role, as the header loop tests them
RoleMatches(role, header) ==
    CASE role = "col_player" -> Contains(header, "player") \/ header = "name"
      [] role = "col_pos" -> Contains(header, "pos") \/ Contains(header, "position")
      [] role = "col_nat" -> Contains(header, "nation") \/ Contains(header, "nat")
                                \/ Contains(header, "country")
      [] role = "col_number" -> Contains(header, "no") \/ header = "n"
                                   \/ Contains(header, "squad number") \/ Contains(header, "number")

MatchingHeaders(role, headers) ==
    { i \in 0..(Len(headers) - 1) : RoleMatches(role, headers[i + 1]) }

\* C9: the header loop gives each role the index of the FIRST
\* header cell, in header order, that matches the role's keywords.
C9_FirstMatchingHeader ==
    (pc = "parsed" /\ tbl.rows # <<>>) =>
        \A role \in Roles :
            LET M == MatchingHeaders(role, table_headers(tbl))
            IN  M # {} => hdr_cols[role] = FirstOf(M)

\* the first-column texts of the sampled data rows (the first five)
SampledFirstColumn(table) ==
    { get_text(table.rows[k][1], "") :
        k \in { k \in 2..Len(table.rows) : k <= 6 /\ table.rows[k] # <<>> } }

\* the implicit rule made column 0 the number column
ImplicitNumberColumn == hdr_cols.col_number = None /\ cols.col_number = 0

\* C10: with no number header, column 0 becomes the number column
\* (and the other indices shift) only if the first-column value of every
\* sampled data row is purely numeric or empty.
C10_AllSampledRowsNumeric ==
    (pc = "parsed" /\ ImplicitNumberColumn) =>
        \A v \in SampledFirstColumn(tbl) : isdigit(v) \/ v = ""

\* C11: whenever the implicit first-column rule fires, ShirtNumber gets index
\* 0, each of Name, Position and Nationality that had index i gets i+1, and
\* an unassigned role stays unassigned; for the headers "", "Player", "Pos.",
\* "Nation" over the first-column values "7", "10", "", "4", "23" this gives
\* ShirtNumber=0, Name=2, Position=3, Nationality=4.
C11_ImplicitColumnShift ==
    (pc = "parsed" /\ ImplicitNumberColumn) =>
        /\ cols.col_number = 0
        /\ \A role \in Roles \ {"col_number"} :
               cols[role] = IF hdr_cols[role] = None THEN None ELSE hdr_cols[role] + 1
        /\ tbl = ShiftExampleTable =>
               cols = [col_number |-> 0, col_player |-> 2, col_pos |-> 3, col_nat |-> 4]

\* the rule fired on the example table, and on a table with an unassigned role
C11_Witness ==
    /\ pc = "parsed"
    /\ ImplicitNumberColumn
    /\ \/ tbl = ShiftExampleTable
       \/ (cols.col_player = 1 /\ cols.col_pos = None)

\* the nationality the precedence rule of C12 gives for the cells of a row
ClaimedNationality(cells, col) ==
    LET has_cell(idx) == idx # None /\ idx < Len(cells)
        nat_cell == cells[col.col_nat + 1]
    IN  IF has_cell(col.col_nat)
        THEN IF nat_cell.links # <<>>
             THEN strip(nat_cell.links[Len(nat_cell.links)])
             ELSE extract_country_from_cell(nat_cell)
        ELSE IF has_cell(col.col_player)
             THEN extract_country_from_cell(cells[col.col_player + 1])
        ELSE ""

\* C12: the raw nationality of a row is the text of the last link
\* of the Nationality cell; with no link in that cell, the alt text of the
\* cell's flag marker; with no Nationality cell, the flag marker of the Name
\* cell; otherwise empty.
C12_NationalityPrecedence ==
    pc = "parsed" =>
        \A k \in 2..Len(tbl.rows) :
            Len(tbl.rows[k]) >= 2 =>
                raw_country(tbl.rows[k], cols) = ClaimedNationality(tbl.rows[k], cols)

\* C15: after the column inference, the implicit column-0 shift included, no
\* two assigned roles among Name, Position, Nationality and ShirtNumber have
\* the same column index, whatever the header sequence.
C15_RolesHaveDistinctColumns ==
    pc = "parsed" =>
        \A r1, r2 \in Roles :
            (r1 # r2 /\ cols[r1] # None /\ cols[r2] # None) => cols[r1] # cols[r2]

\* the implicit rule fired on a table with a Name header in column 0
C15_Witness ==
    /\ pc = "parsed"
    /\ ImplicitNumberColumn
    /\ hdr_cols.col_player = 0
    /\ cols.col_player = 1
    /\ cols.col_pos # None

-----------------------------------------------------------------------------
(* Classification followed by the parsing of the accepted table: the table *)
(* find_first_team_table returns after is_player_table accepted it is the  *)
(* one fetch_club_squad hands to parse_first_team_table.                   *)

InitChosen ==
    /\ pc = "classify"
    /\ tbl \in ClassifyInputs
    /\ IdleClassify /\ IdleSelect /\ IdleParse /\ IdleFetch /\ IdleFill

\* parse_first_team_table on a table one of the classifications accepted
ParseChosen ==
    /\ pc = "classified"
    /\ player_table.strict \/ player_table.loose
    /\ hdr_cols' = header_columns(tbl)
    /\ cols' = infer_columns(tbl)
    /\ rows' = parse_first_team_table(tbl, Team, League)
    /\ pc' = "parsed"
    /\ UNCHANGED <<tbl, classifyVars, selectVars, fetchVars, fillVars>>

NextChosen == Classify \/ ParseChosen

SpecChosen == InitChosen /\ [][NextChosen]_vars

\* C16: for every table is_player_table accepts, strictly or
\* loosely, the column inference of parse_first_team_table assigns a Name
\* column.
C16_AcceptedTableHasNameColumn ==
    (pc = "parsed" /\ (player_table.strict \/ player_table.loose)) => cols.col_player # None

-----------------------------------------------------------------------------
(* The shirt number of one parsed row (parse_first_team_table on a table   *)
(* with a number column and one data row).                                 *)

MaxLen == 3

\* digits, the range separators, a letter, a dot, a blank, the em-dash
ShirtChars == {"7", "1", "-", "/", "N", " ", "~"}

RECURSIVE Strings(_, _)
\* the strings over the characters of A of length at most n
Strings(A, n) ==
    IF n = 0 THEN {""}
    ELSE {""} \cup { c \o t : c \in A, t \in Strings(A, n - 1) }

ShirtTexts == Strings(ShirtChars, MaxLen) \cup {"9/10", "No. 7", "12-15", " 10 "}

ShirtTable(text) ==
    Table(TRUE, << <<Th("No."), Th("Player")>>, <<Td(text), TdLink("", "A Player")>> >>)

InitShirt ==
    /\ pc = "parse"
    /\ tbl \in { ShirtTable(text) : text \in ShirtTexts }
    /\ IdleClassify /\ IdleSelect /\ IdleParse /\ IdleFetch /\ IdleFill

SpecShirt == InitShirt /\ [][NextParse]_vars

\* the text of the number cell of the data row, trimmed
TrimmedNumberText == strip(tbl.rows[2][1].text)

\* s without "-" and "/" is a non-empty string of digits
DigitsAndSeparators(s) ==
    /\ \A i \in 1..Len(s) : ch(s, i) \in DigitSet \cup {"-", "/"}
    /\ \E i \in 1..Len(s) : ch(s, i) \in DigitSet

\* the first maximal run of digits of s, "" when s has no digit
FirstMaximalDigitRun(s) ==
    LET D == { i \in 1..Len(s) : ch(s, i) \in DigitSet }
    IN  IF D = {} THEN ""
        ELSE LET a == CHOOSE i \in D : \A j \in D : i <= j
                 b == CHOOSE i \in a..Len(s) :
                          /\ \A j \in a..i : j \in D
                          /\ (i + 1) \notin D
             IN  SubSeq(s, a, b)

\* C13: the shirt number of a row is, for the trimmed cell text s: empty when
\* s is empty; s unchanged when s without "-" and "/" is a non-empty string
\* of digits ("9/10" stays "9/10"); otherwise the first maximal run of digits
\* of s ("No. 7" gives "7"), empty when s has no digit (the em-dash gives "").
C13_ShirtNumberNormalization ==
    (pc = "parsed" /\ Len(tbl.rows) = 2) =>
        /\ Len(rows) = 1
        /\ LET t == TrimmedNumberText
           IN  rows[1].Shirt_Number =
                   IF t = "" THEN ""
                   ELSE IF DigitsAndSeparators(t) THEN t
                   ELSE FirstMaximalDigitRun(t)
        /\ TrimmedNumberText = "9/10" => rows[1].Shirt_Number = "9/10"
        /\ TrimmedNumberText = "No. 7" => rows[1].Shirt_Number = "7"
        /\ TrimmedNumberText = "~" => rows[1].Shirt_Number = ""

\* a range passed through unchanged
C13_Witness ==
    /\ pc = "parsed"
    /\ tbl = ShirtTable("9/10")
    /\ rows # <<>>
    /\ rows[1].Shirt_Number = "9/10"

-----------------------------------------------------------------------------
(* The country of the parsed rows (parse_first_team_table on a table with  *)
(* a nationality column whose cells hold plain text).                      *)

MaxCountries == 2

\* keys of country_map, codes, short and long texts that are no key
CountrySamples ==
    { "Spain", "Ivory Coast", "USA", "usa", "ESP", "esp", "Esp", "br", "x",
      "Peru", "peru", "spain", "Wakanda", " Dutch " }

CountryTable(cs) ==
    Table(TRUE, << <<Th("Player"), Th("Nat.")>> >>
                \o [k \in 1..Len(cs) |-> <<TdLink("", "A Player"), Td(cs[k])>>])

InitCountry ==
    /\ pc = "parse"
    /\ tbl \in { CountryTable(cs) :
                    cs \in UNION { [1..n -> CountrySamples] : n \in 1..MaxCountries } }
    /\ IdleClassify /\ IdleSelect /\ IdleParse /\ IdleFetch /\ IdleFill

SpecCountry == InitCountry /\ [][NextParse]_vars

\* the raw country text of the k-th data row
RawCountryText(k) == strip(tbl.rows[k + 1][2].text)

\* C14: the country of a row with the non-empty raw text c is the mapped code
\* when c is a key of the country table ("Spain" gives "ESP"), c upper-cased
\* when c is no key and has at most 3 characters, c unchanged otherwise; it
\* depends on c alone, and normalizing it a second time changes nothing.
C14_CountryNormalization ==
    pc = "parsed" =>
        /\ Len(rows) = Len(tbl.rows) - 1
        /\ \A k \in 1..Len(rows) :
               LET c == RawCountryText(k)
                   out == rows[k].Country
               IN  /\ c \in country_map_keys => <<c, out>> \in country_map_pairs
                   /\ (c \notin country_map_keys /\ Len(c) <= 3) => out = upper(c)
                   /\ (c \notin country_map_keys /\ Len(c) > 3) => out = c
                   /\ c = "Spain" => out = "ESP"
                   /\ normalize_country(out) = out
                   /\ \A j \in 1..Len(rows) :
                          RawCountryText(j) = c => rows[j].Country = out

\* a short lower-case code after a mapped name: both rows read "ESP"
C14_Witness ==
    /\ pc = "parsed"
    /\ tbl = CountryTable(<<"Spain", "esp">>)
    /\ Len(rows) = 2
    /\ rows[1].Country = "ESP"
    /\ rows[2].Country = "ESP"

-----------------------------------------------------------------------------
(* The URL fallback loop of one club (fetch_club_squad).                   *)

MaxUrls == 3

SquadNames ==
    <<"Pedro Porro", "Xavi Simons", "Guglielmo Vicario", "Cristian Romero",
      "Destiny Udogie", "Yves Bissouma", "James Maddison", "Dejan Kulusevski",
      "Richarlison", "Dominic Solanke", "Mohammed Kudus", "Brennan Johnson">>

SquadNumbers == <<"23", "10", "13", "17", "38", "8", "10", "21", "9", "9", "11", "22">>

\* a squad table of n players
SquadTable(n) ==
    Table(TRUE, << <<Th("No."), Th("Pos."), Th("Nat."), Th("Player")>> >>
                \o [i \in 1..n |-> <<Td(SquadNumbers[i]), Td("MF"), TdFlag("", "Spain"),
                                     TdLink("", SquadNames[i])>>])

RosterSizes == {3, 5, 10, 12}

\* a failed fetch, a page without a wikitable, a page whose only wikitable
\* parses to no row, and season pages with rosters below and above the threshold
WebSamples ==
    { FetchFailure,
      Page(<<Heading("Transfers", 0)>>),
      Page(<<Heading("First-team squad", 0), TableEl(PlainTable, 0)>>) }
    \cup { Page(<<Heading("First-team squad", 0), TableEl(SquadTable(n), 0)>>) : n \in RosterSizes }

InitFetch ==
    /\ pc = "fetching"
    /\ web \in UNION { [1..n -> WebSamples] : n \in 1..MaxUrls }
    /\ url_idx = 0
    /\ partial_rows = <<>>
    /\ squad = <<>>
    /\ attempted = <<>>
    /\ tbl = NoTable
    /\ IdleClassify /\ IdleSelect /\ IdleParse /\ IdleFill

\* one iteration of the for loop over urls
TryUrl ==
    /\ pc = "fetching"
    /\ url_idx < Len(web)
    /\ \E r \in {try_url(web[url_idx + 1], partial_rows, Team, League)} :
           /\ partial_rows' = r.partial_rows
           /\ squad' = IF r.returned THEN r.rows ELSE squad
           /\ pc' = IF r.returned THEN "returned" ELSE pc
    /\ url_idx' = url_idx + 1
    /\ attempted' = Append(attempted, url_idx + 1)
    /\ UNCHANGED <<web, tbl, classifyVars, selectVars, parseVars, fillVars>>

\* the loop ran out of URLs: the partial roster, or the empty list
UrlsExhausted ==
    /\ pc = "fetching"
    /\ url_idx = Len(web)
    /\ squad' = IF partial_rows # <<>> THEN partial_rows ELSE <<>>
    /\ pc' = "returned"
    /\ UNCHANGED <<web, url_idx, partial_rows, attempted, tbl,
                   classifyVars, selectVars, parseVars, fillVars>>

NextFetch == TryUrl \/ UrlsExhausted

SpecFetch == InitFetch /\ [][NextFetch]_vars

\* the number of rows each configured URL yields
Yield == [k \in 1..Len(web) |-> Len(rows_from(web[k], Team, League))]

MaxOf(S) == CHOOSE n \in S : \A m \in S : m <= n

\* C3: when every URL was tried and none reached
\* MIN_PLAYER_THRESHOLD rows, the roster returned is the partial roster with
\* the largest row count among those seen.
C3_LargestPartialReturned ==
    (pc = "returned" /\ \A k \in 1..Len(web) : Yield[k] < MIN_PLAYER_THRESHOLD) =>
        Len(squad) = MaxOf({ Yield[k] : k \in 1..Len(web) })

\* C4: URLs are fetched in configured order, each at most once; a URL is
\* fetched only if every earlier one yielded fewer than MIN_PLAYER_THRESHOLD
\* rows (a failed fetch, no table and zero rows included); the first URL that
\* yields at least MIN_PLAYER_THRESHOLD rows ends the loop with its roster
\* returned and no later URL fetched; if every URL yields zero rows the
\* roster returned is empty.
C4_UrlsInOrderUntilThreshold ==
    LET y == Yield
    IN  /\ attempted = [i \in 1..Len(attempted) |-> i]
        /\ Len(attempted) <= Len(web)
        /\ \A k \in 1..Len(attempted) : \A j \in 1..(k - 1) : y[j] < MIN_PLAYER_THRESHOLD
        /\ \A k \in 1..Len(attempted) :
              y[k] >= MIN_PLAYER_THRESHOLD =>
                  /\ pc = "returned"
                  /\ Len(attempted) = k
                  /\ squad = rows_from(web[k], Team, League)
        /\ (pc = "returned" /\ \A k \in 1..Len(web) : y[k] < MIN_PLAYER_THRESHOLD)
              => Len(attempted) = Len(web)
        /\ (pc = "returned" /\ \A k \in 1..Len(web) : y[k] = 0) => squad = <<>>

\* a full roster returned from the second of three URLs after a partial one
C4_Witness ==
    /\ pc = "returned"
    /\ Len(web) = 3
    /\ attempted = <<1, 2>>
    /\ Yield[1] > 0
    /\ Yield[1] < MIN_PLAYER_THRESHOLD
    /\ Len(squad) >= MIN_PLAYER_THRESHOLD

-----------------------------------------------------------------------------
(* Validation and enrichment of the collected rows (fill_missing_data).    *)

MaxRows == 2

Row(name, country, position, number) ==
    [Name |-> name, Team |-> Team, Country |-> country, Position |-> position,
     League |-> League, Shirt_Number |-> number]

\* rows as parse_first_team_table produces them: stripped texts, a non-empty
\* name.  "Pedri" is a known player with country and number, "Nico O'Reilly"
\* a known player with no number, "Joe Bloggs" is unknown.
RowSamples ==
    { Row("Pedri", "", "MF", ""), Row("Pedri", "", "MF", "7"), Row("Pedri", "BRA", "MF", "7"),
      Row("Nico O'Reilly", "", "MF", ""),
      Row("Joe Bloggs", "", "MF", ""), Row("Joe Bloggs", "BRA", "MF", "7"),
      Row("Joe Bloggs", "BRA", "Manager", "7"), Row("Joe Bloggs", "BRA", "~", "7"),
      Row("Joe Bloggs", "", "Goalkeeping Coach", ""),
      Row("Apps", "", "MF", ""), Row("SPAIN", "", "MF", ""), Row("X", "BRA", "MF", "7") }

\* what the page lookup of an unknown player can give
LookupSamples == {"", "FRA"}

InitFill ==
    /\ pc = "fill"
    /\ all_rows \in UNION { [1..n -> RowSamples] : n \in 0..MaxRows }
    /\ valid_rows = <<>>
    /\ origin = <<>>
    /\ tbl = NoTable
    /\ IdleClassify /\ IdleSelect /\ IdleParse /\ IdleFetch

FillMissingData ==
    /\ pc = "fill"
    /\ \E looked_up \in [1..Len(all_rows) -> LookupSamples] :
          LET out == fill_missing_data(all_rows, looked_up, 1)
          IN  /\ valid_rows' = [k \in 1..Len(out) |-> out[k].row]
              /\ origin' = [k \in 1..Len(out) |-> out[k].from]
    /\ pc' = "filled"
    /\ UNCHANGED <<all_rows, tbl, classifyVars, selectVars, parseVars, fetchVars>>

NextFill == FillMissingData

SpecFill == InitFill /\ [][NextFill]_vars

\* C5: every row returned by fill_missing_data has a Name of length at least
\* 2 that, lower-cased, is not in the non-player denylist, and a Position
\* that, lower-cased, is not in the staff denylist; a row with Position
\* "Manager" is never returned.
C5_ReturnedRowsAreValid ==
    pc = "filled" =>
        \A k \in 1..Len(valid_rows) :
            /\ Len(valid_rows[k].Name) >= 2
            /\ lower(valid_rows[k].Name) \notin invalid_names
            /\ lower(valid_rows[k].Position) \notin invalid_positions
            /\ valid_rows[k].Position # "Manager"

\* a manager row with a valid name dropped while a player row is returned
C5_Witness ==
    /\ pc = "filled"
    /\ \E i \in 1..Len(all_rows) :
          /\ all_rows[i].Position = "Manager"
          /\ all_rows[i].Name = "Joe Bloggs"
          /\ \A k \in 1..Len(origin) : origin[k] # i
    /\ valid_rows # <<>>

\* C6: enrichment never overwrites a value extracted from the table: for
\* every returned row a Country or Shirt Number that was non-empty is
\* unchanged, and Name, Team, Position and League are unchanged; a lookup
\* result lands only in a field that was empty.
C6_NoOverwrite ==
    pc = "filled" =>
        \A k \in 1..Len(valid_rows) :
            LET before == all_rows[origin[k]]
                after == valid_rows[k]
            IN  /\ before.Country # "" => after.Country = before.Country
                /\ before.Shirt_Number # "" => after.Shirt_Number = before.Shirt_Number
                /\ after.Name = before.Name
                /\ after.Team = before.Team
                /\ after.Position = before.Position
                /\ after.League = before.League

\* a known player whose empty Country was filled while the Shirt Number
\* read from the table was kept although the lookup has another one
C6_Witness ==
    /\ pc = "filled"
    /\ \E k \in 1..Len(valid_rows) :
          /\ all_rows[origin[k]].Name = "Pedri"
          /\ all_rows[origin[k]].Country = ""
          /\ valid_rows[k].Country = "ESP"
          /\ all_rows[origin[k]].Shirt_Number = "7"
          /\ valid_rows[k].Shirt_Number = "7"
          /\ known_player("Pedri")[3] # "7"

====
